---- MODULE Spec2Model ----
(***************************************************************************)
(* Model of the universal plotting sheet (src/main.js).                    *)
(*                                                                         *)
(* Text is a sequence of one-character tokens.  The non-ASCII characters   *)
(* of the source are written as the tokens "deg" (the degree sign),        *)
(* "lq" and "rq" (the left and right single quotation marks).              *)
(*                                                                         *)
(* Numbers.  A latitude, a longitude or a distance is a fixed-point        *)
(* integer in units of 1/100 arc minute (1/6000 degree, 1/100 nautical     *)
(* mile).  An angle is held in degrees: radians(d) is the angle d, in      *)
(* units of pi/180 radian, so that 2*pi is 360.  A pixel coordinate is in  *)
(* units of 1/10 pixel.  Divisions round toward minus infinity.  The       *)
(* values NaN, PosInf and NegInf stand for the IEEE values of the same     *)
(* names.                                                                  *)
(***************************************************************************)
EXTENDS Integers, Sequences, FiniteSets, TLC

(* A JavaScript value: a number, null or undefined.  A number is finite   *)
(* (v is its fixed-point value), NaN, or an infinity (v is its sign).      *)
Num(v) == [t |-> "number", v |-> v]
Null == [t |-> "null", v |-> 0]
Undefined == [t |-> "undefined", v |-> 0]
NaN == [t |-> "NaN", v |-> 0]
PosInf == [t |-> "Infinity", v |-> 1]
NegInf == [t |-> "Infinity", v |-> -1]

\* 60 arc minutes to the degree: minutes / 60, a / 60
MinPerDeg == 60
\* resolution of a geographic value: hundredths of an arc minute
Res == 100
U == MinPerDeg * Res
\* resolution of a pixel coordinate: tenths of a pixel
P == 10
\* scale of a sine, a cosine or a slope
T == 1000

Max(x, y) == IF x >= y THEN x ELSE y
Min(x, y) == IF x <= y THEN x ELSE y
Abs(x) == IF x < 0 THEN -x ELSE x

\* floor(x * y / d) for d > 0, without forming x * y
MulDiv(x, y, d) == (x \div d) * y + ((x % d) * y) \div d

----------------------------------------------------------------------------
(* Characters and strings *)

Digits == <<"0", "1", "2", "3", "4", "5", "6", "7", "8", "9">>
DigitSet == {Digits[i] : i \in 1..10}
IsDigit(c) == c \in DigitSet
DigitVal(c) == CHOOSE v \in 0..9 : Digits[v + 1] = c
DigitChar(v) == Digits[v + 1]

\* String.prototype.toUpperCase, on the letters the inputs use
toUpperCase1(c) ==
  CASE c = "n" -> "N" [] c = "s" -> "S" [] c = "e" -> "E" [] c = "w" -> "W"
    [] c = "t" -> "T" [] c = "a" -> "A" [] OTHER -> c
toUpperCase(s) == [i \in 1..Len(s) |-> toUpperCase1(s[i])]

RECURSIVE trimStart(_)
trimStart(s) == IF s # <<>> /\ Head(s) = " " THEN trimStart(Tail(s)) ELSE s
RECURSIVE trimEnd(_)
trimEnd(s) ==
  IF s # <<>> /\ s[Len(s)] = " " THEN trimEnd(SubSeq(s, 1, Len(s) - 1)) ELSE s
\* String.prototype.trim
trim(s) == trimEnd(trimStart(s))

\* Number(digits) for a string of decimal digits
RECURSIVE NumberOf(_)
NumberOf(s) ==
  IF s = <<>> THEN 0 ELSE 10 * NumberOf(SubSeq(s, 1, Len(s) - 1)) + DigitVal(s[Len(s)])

\* the decimal digits of n >= 0, at least minDigits of them
RECURSIVE PadDigits(_, _)
PadDigits(n, minDigits) ==
  IF n < 10 /\ minDigits <= 1 THEN <<DigitChar(n)>>
  ELSE PadDigits(n \div 10, minDigits - 1) \o <<DigitChar(n % 10)>>

----------------------------------------------------------------------------
(* Regular expression pieces.  A position is an index into s; each piece    *)
(* returns the position after what it matched.                              *)

At(s, i) == IF i >= 1 /\ i <= Len(s) THEN s[i] ELSE "eos"

\* " *"
RECURSIVE Spaces(_, _)
Spaces(s, i) == IF At(s, i) = " " THEN Spaces(s, i + 1) ELSE i

\* "[...]?"
Optional(s, i, set) == IF At(s, i) \in set THEN i + 1 ELSE i

\* the length of the run of digits that starts at i
RECURSIVE DigitRun(_, _)
DigitRun(s, i) == IF IsDigit(At(s, i)) THEN 1 + DigitRun(s, i + 1) ELSE 0

DegreeMarks == {"deg", "*"}
MinuteMarks == {"'", "lq", "rq"}

(* parseDegreesDirection's expression is "^(form 1|form 2)$":              *)
(*   form 1:  (\d{1,maxDigits}) *[deg*]? minutesRegex *([PN])               *)
(*   form 2:  ([-+]?) *(\d{1,maxDigits}) *[deg*]? minutesRegex              *)
(* where minutesRegex is " *(\d{1,2}(\.\d)?) *['lq rq]?" with minutes and   *)
(* empty without.  A match is a record: ok, the position pos after it, the  *)
(* degrees, the minutes (in units of 1/100 arc minute) and the direction    *)
(* letter of form 1.                                                        *)
Match(ok, pos, degrees, minutes, dir) ==
  [ok |-> ok, pos |-> pos, degrees |-> degrees, minutes |-> minutes, dir |-> dir]
NoMatch == Match(FALSE, 0, 0, 0, "")

\* "(\.\d)? *['lq rq]?" after the n whole-minute digits that start at j
MatchFraction(s, j, n) ==
  IF At(s, j + n) = "." /\ IsDigit(At(s, j + n + 1))
    THEN Match(TRUE, Optional(s, Spaces(s, j + n + 2), MinuteMarks), 0,
               NumberOf(SubSeq(s, j, j + n - 1)) * Res
                 + DigitVal(s[j + n + 1]) * (Res \div 10), "")
    ELSE Match(TRUE, Optional(s, Spaces(s, j + n), MinuteMarks), 0,
               NumberOf(SubSeq(s, j, j + n - 1)) * Res, "")

\* "(\d{1,2}(\.\d)?) *['lq rq]?" at j
MatchWholeMinutes(s, j) ==
  IF DigitRun(s, j) >= 1 /\ DigitRun(s, j) <= 2
    THEN MatchFraction(s, j, DigitRun(s, j))
    ELSE NoMatch

\* " *[deg*]?" minutesRegex at i, the position after the degrees
MatchMinutes(s, i, withMinutes) ==
  IF withMinutes
    THEN MatchWholeMinutes(s, Spaces(s, Optional(s, Spaces(s, i), DegreeMarks)))
    ELSE Match(TRUE, Optional(s, Spaces(s, i), DegreeMarks), 0, 0, "")

\* the end of form 1, " *([PN])$", after the match t
MatchDirection(s, t, letters) ==
  IF t.ok /\ At(s, Spaces(s, t.pos)) \in letters /\ Spaces(s, t.pos) = Len(s)
    THEN [t EXCEPT !.dir = s[Len(s)]]
    ELSE NoMatch

\* the end of form 2, "$", after the match t
MatchEnd(s, t) == IF t.ok /\ t.pos = Len(s) + 1 THEN t ELSE NoMatch

\* what follows degrees that end before position i
MatchTail(s, i, withMinutes, letters, form) ==
  IF form = 1
    THEN MatchDirection(s, MatchMinutes(s, i, withMinutes), letters)
    ELSE MatchEnd(s, MatchMinutes(s, i, withMinutes))

WithDegrees(t, degrees) == IF t.ok THEN [t EXCEPT !.degrees = degrees] ELSE t

(* One form, its degrees starting at start and k digits long; k is tried    *)
(* from maxDigits down, as the greedy "\d{1,maxDigits}" does.               *)
RECURSIVE MatchForm(_, _, _, _, _, _)
MatchForm(s, start, k, withMinutes, letters, form) ==
  IF k < 1 THEN NoMatch
  ELSE IF DigitRun(s, start) >= k /\ MatchTail(s, start + k, withMinutes, letters, form).ok
    THEN WithDegrees(MatchTail(s, start + k, withMinutes, letters, form),
                     NumberOf(SubSeq(s, start, start + k - 1)))
  ELSE MatchForm(s, start, k - 1, withMinutes, letters, form)

\* m[6], the sign of form 2
SignOf(s) == IF At(s, 1) \in {"-", "+"} THEN s[1] ELSE ""

\* the signed magnitude of a match, or null
Magnitude(m) == m.degrees * U + m.minutes
SignedMagnitude(m, isPositive, maxMagnitude) ==
  IF ~m.ok THEN Null
  ELSE IF Magnitude(m) > maxMagnitude * U THEN Null
  ELSE IF isPositive THEN Num(Magnitude(m)) ELSE Num(-Magnitude(m))

\* the body of parseDegreesDirection after "s = s.trim().toUpperCase()"
ParseUpper(s, maxDigits, maxMagnitude, posDirection, negDirection, withMinutes) ==
  IF s = <<>> THEN Num(0)
  ELSE IF MatchForm(s, 1, maxDigits, withMinutes, {posDirection, negDirection}, 1).ok
    THEN SignedMagnitude(
           MatchForm(s, 1, maxDigits, withMinutes, {posDirection, negDirection}, 1),
           s[Len(s)] = posDirection, maxMagnitude)
  ELSE SignedMagnitude(
         MatchForm(s, Spaces(s, IF SignOf(s) = "" THEN 1 ELSE 2), maxDigits,
                   withMinutes, {posDirection, negDirection}, 2),
         SignOf(s) # "-", maxMagnitude)

parseDegreesDirection(s, maxDigits, maxMagnitude, posDirection, negDirection, withMinutes) ==
  ParseUpper(toUpperCase(trim(s)), maxDigits, maxMagnitude, posDirection, negDirection,
             withMinutes)

parseIntegerLatitude(s) == parseDegreesDirection(s, 2, 89, "N", "S", FALSE)
parseIntegerLongitude(s) == parseDegreesDirection(s, 3, 180, "E", "W", FALSE)
parseLongitude(s) == parseDegreesDirection(s, 3, 180, "E", "W", TRUE)

----------------------------------------------------------------------------
(* Formatting *)

\* DirectionSuffix with zero counted as positive
DirectionSuffixZeroPositive(deg, posDirection, negDirection) ==
  IF deg >= 0 THEN <<" ", posDirection>> ELSE <<" ", negDirection>>

\* the direction suffix both formatters append
DirectionSuffix(deg, posDirection, negDirection) ==
  IF deg > 0 THEN <<" ", posDirection>>
  ELSE IF deg < 0 THEN <<" ", negDirection>>
  ELSE <<>>

\* x / d rounded to the nearest integer, halves away from zero (x >= 0)
RoundDiv(x, d) == (2 * x + d) \div (2 * d)

formatDegreesMinutesDirection(deg, minDegreeDigits, posDirection, negDirection) ==
  LET absDeg == Abs(deg)
      truncAbsDeg == absDeg \div U
      \* (absDeg - truncAbsDeg) * 60, to one fraction digit: tenths of a minute
      tenths == RoundDiv(absDeg % U, Res \div 10)
  IN  PadDigits(truncAbsDeg, minDegreeDigits)
      \o <<"deg", " ">>
      \o PadDigits(tenths \div 10, 2) \o <<".", DigitChar(tenths % 10)>>
      \o <<"rq">>
      \o DirectionSuffix(deg, posDirection, negDirection)

formatDegreesDirection(deg, minDigits, posDirection, negDirection) ==
  PadDigits(RoundDiv(Abs(deg), U), minDigits)
  \o <<"deg">>
  \o DirectionSuffix(deg, posDirection, negDirection)

formatLatitude(deg) == formatDegreesMinutesDirection(deg, 2, "N", "S")
formatIntegerLatitude(deg) == formatDegreesDirection(deg, 2, "N", "S")
formatLongitude(deg) == formatDegreesMinutesDirection(deg, 3, "E", "W")
formatIntegerLongitude(deg) == formatDegreesDirection(deg, 3, "E", "W")

----------------------------------------------------------------------------
(* Numbers: IEEE arithmetic on fixed-point values and NaN, +-Infinity *)

IsFinite(x) == x.t = "number"
isNaN(x) == x.t = "NaN"
Sign(x) == IF x.v > 0 THEN 1 ELSE IF x.v < 0 THEN -1 ELSE 0
Inf(sign) == IF sign > 0 THEN PosInf ELSE NegInf

JsNeg(x) == IF isNaN(x) THEN NaN ELSE [x EXCEPT !.v = -x.v]
JsAdd(x, y) ==
  IF isNaN(x) \/ isNaN(y) THEN NaN
  ELSE IF IsFinite(x) /\ IsFinite(y) THEN Num(x.v + y.v)
  ELSE IF IsFinite(x) THEN y
  ELSE IF IsFinite(y) THEN x
  ELSE IF x = y THEN x ELSE NaN
JsSub(x, y) == JsAdd(x, JsNeg(y))
\* x * y, one of the two carrying the scale
JsMul(x, y, scale) ==
  IF isNaN(x) \/ isNaN(y) THEN NaN
  ELSE IF IsFinite(x) /\ IsFinite(y) THEN Num(MulDiv(x.v, y.v, scale))
  ELSE IF Sign(x) * Sign(y) = 0 THEN NaN
  ELSE Inf(Sign(x) * Sign(y))
\* x / y with a zero divisor giving 0 where JavaScript gives Infinity or NaN
JsDivZeroDivisor(x, y, scale) ==
  IF isNaN(x) \/ isNaN(y) THEN NaN
  ELSE IF IsFinite(x) /\ IsFinite(y)
    THEN IF y.v = 0 THEN Num(0)
         ELSE IF y.v > 0 THEN Num(MulDiv(x.v, scale, y.v))
         ELSE Num(MulDiv(-x.v, scale, -y.v))
  ELSE IF IsFinite(x) THEN Num(0)
  ELSE IF IsFinite(y) THEN Inf(Sign(x) * (IF y.v < 0 THEN -1 ELSE 1))
  ELSE NaN
\* x / y, the quotient carrying the scale
JsDiv(x, y, scale) ==
  IF isNaN(x) \/ isNaN(y) THEN NaN
  ELSE IF IsFinite(x) /\ IsFinite(y)
    THEN IF y.v = 0 THEN (IF x.v = 0 THEN NaN ELSE Inf(Sign(x)))
         ELSE IF y.v > 0 THEN Num(MulDiv(x.v, scale, y.v))
         ELSE Num(MulDiv(-x.v, scale, -y.v))
  ELSE IF IsFinite(x) THEN Num(0)
  ELSE IF IsFinite(y) THEN Inf(Sign(x) * (IF y.v < 0 THEN -1 ELSE 1))
  ELSE NaN
\* x < y and x > y: false when either is NaN
JsLt(x, y) ==
  IF isNaN(x) \/ isNaN(y) THEN FALSE
  ELSE IF IsFinite(x) /\ IsFinite(y) THEN x.v < y.v
  ELSE IF x = y THEN FALSE
  ELSE x = NegInf \/ y = PosInf
JsGt(x, y) == JsLt(y, x)

\* 1000 * sin(d degrees), d in 0..90
SinTable ==
  <<0, 17, 35, 52, 70, 87, 105, 122, 139, 156, 174, 191, 208,
    225, 242, 259, 276, 292, 309, 326, 342, 358, 375, 391, 407, 423,
    438, 454, 469, 485, 500, 515, 530, 545, 559, 574, 588, 602, 616,
    629, 643, 656, 669, 682, 695, 707, 719, 731, 743, 755, 766, 777,
    788, 799, 809, 819, 829, 839, 848, 857, 866, 875, 883, 891, 899,
    906, 914, 921, 927, 934, 940, 946, 951, 956, 961, 966, 970, 974,
    978, 982, 985, 988, 990, 993, 995, 996, 998, 999, 999, 1000, 1000>>

\* Math.sin and Math.cos of an angle in degrees, scaled by T
Sin(d) ==
  LET r == d % 360
  IN  IF r <= 90 THEN SinTable[r + 1]
      ELSE IF r <= 180 THEN SinTable[180 - r + 1]
      ELSE IF r <= 270 THEN -SinTable[r - 180 + 1]
      ELSE -SinTable[360 - r + 1]
Cos(d) == Sin(d + 90)

\* deg / 180 * Math.PI, in units of pi/180
radians(deg) == deg
TwoPi == radians(360)

\* Math.cos(radians(lat)) for a latitude in units of 1/6000 degree
CosLat(lat) == Cos(radians(lat \div U))

rhumbPoint(lat, lon, Zn, a) ==
  LET aInLon == MulDiv(a, T, CosLat(lat))
  IN  [lat |-> lat + MulDiv(a, Cos(Zn), T),
       lon |-> lon + MulDiv(aInLon, Sin(Zn), T)]

----------------------------------------------------------------------------
(* Program state *)

Fields == {"ctrLat", "ctrLon", "a", "Zn", "aLat", "aLon"}
DraftFields == {"a", "Zn", "aLat", "aLon"}

VARIABLES
  value,           \* the text of each input tag
  aDir,            \* the value of the direction select: "T" or "A"
  border,          \* whether each input tag carries the red error border
  addLOPBtn,       \* [disabled |-> BOOLEAN]
  coords,          \* the coordinate display: its text and its "snapped" class
  window,          \* the size available to the sheet canvas, in pixels
  _ctrLat, _ctrLon, _latScale, _lonScale, _sheetSize,
  _lops, _intersections, _draftLOP,
  probe            \* a function of the program applied to an input, and its result

vars == <<value, aDir, border, addLOPBtn, coords, window, _ctrLat, _ctrLon,
          _latScale, _lonScale, _sheetSize, _lops, _intersections, _draftLOP, probe>>

\* the program's own state
state == <<value, aDir, border, addLOPBtn, coords, window, _ctrLat, _ctrLon,
           _latScale, _lonScale, _sheetSize, _lops, _intersections, _draftLOP>>

----------------------------------------------------------------------------
(* The draft handlers, as functions of the field's text.  Each returns the  *)
(* draft value it stores, the text it leaves in the field and whether it    *)
(* calls flagInputError.                                                    *)

Outcome(val, text, flag) == [val |-> val, text |-> text, flag |-> flag]

\* n.toLocaleString() of an integer n >= 0, with the grouping of en-US
RECURSIVE GroupDigits(_)
GroupDigits(n) ==
  IF n < 1000 THEN PadDigits(n, 1)
  ELSE GroupDigits(n \div 1000) \o <<",">> \o PadDigits(n % 1000, 3)

\* _a.toLocaleString(undefined, {minimumFractionDigits: 1, maximumFractionDigits: 1}) + "rq"
formatA(_a) ==
  LET tenths == RoundDiv(_a, Res \div 10)
  IN  GroupDigits(tenths \div 10) \o <<".", DigitChar(tenths % 10)>> \o <<"rq">>

\* Number("int.frac"), to 1/100: further fraction digits are dropped
DecimalOf(int, frac) ==
  NumberOf(int) * Res + NumberOf(SubSeq(frac \o <<"0", "0">>, 1, 2))

updateA(text, dir) ==
  LET s == trim(text)
      n1 == DigitRun(s, 1)
      i1 == 1 + n1
      hasDot == At(s, i1) = "."
      n2 == IF hasDot THEN DigitRun(s, i1 + 1) ELSE 0
      i2 == IF hasDot THEN i1 + 1 + n2 ELSE i1
      i3 == Optional(s, Spaces(s, i2), MinuteMarks)
      m == n1 >= 1 /\ (hasDot => n2 >= 1) /\ i3 = Len(s) + 1
      _a == DecimalOf(SubSeq(s, 1, n1), SubSeq(s, i1 + 1, i1 + n2))
  IN  IF s = <<>> THEN Outcome(Num(0), text, FALSE)
      ELSE IF ~m THEN Outcome(Undefined, text, TRUE)
      ELSE Outcome(Num(IF dir = "T" THEN _a ELSE -_a), formatA(_a), FALSE)

\* updateZn with the limit one degree too high
updateZnOffByOne(text) ==
  LET s == trim(text)
      n1 == DigitRun(s, 1)
      i2 == Optional(s, Spaces(s, 1 + n1), {"deg"})
      m == n1 >= 1 /\ n1 <= 3 /\ i2 = Len(s) + 1
      _Zn == NumberOf(SubSeq(s, 1, n1))
  IN  IF s = <<>> THEN Outcome(Num(0), text, FALSE)
      ELSE IF ~m THEN Outcome(Undefined, text, TRUE)
      ELSE IF _Zn > 361 THEN Outcome(Undefined, text, TRUE)
      ELSE Outcome(Num(radians(_Zn)), PadDigits(_Zn, 3) \o <<"deg">>, FALSE)

updateZn(text) ==
  LET s == trim(text)
      n1 == DigitRun(s, 1)
      i2 == Optional(s, Spaces(s, 1 + n1), {"deg"})
      m == n1 >= 1 /\ n1 <= 3 /\ i2 = Len(s) + 1
      _Zn == NumberOf(SubSeq(s, 1, n1))
  IN  IF s = <<>> THEN Outcome(Num(0), text, FALSE)
      ELSE IF ~m THEN Outcome(Undefined, text, TRUE)
      ELSE IF _Zn > 360 THEN Outcome(Undefined, text, TRUE)
      ELSE Outcome(Num(radians(_Zn)), PadDigits(_Zn, 3) \o <<"deg">>, FALSE)

updateALat(text) ==
  LET aLat == parseIntegerLatitude(text)
  IN  IF aLat = Null THEN Outcome(Undefined, text, TRUE)
      ELSE Outcome(aLat, formatIntegerLatitude(aLat.v), FALSE)

updateALon(text) ==
  LET aLon1 == parseIntegerLongitude(text)
      aLon == IF aLon1 = Null THEN parseLongitude(text) ELSE aLon1
  IN  IF aLon = Null THEN Outcome(Undefined, text, TRUE)
      ELSE Outcome(aLon, formatLongitude(aLon.v), FALSE)

\* updateAddLOPButton without the test of aLon
updateAddLOPButtonSkippingALon(draft) ==
  [disabled |-> \E f \in DraftFields \ {"aLon"} : draft[f] = Null \/ draft[f] = Undefined]

updateAddLOPButton(draft) ==
  [disabled |-> \E f \in DraftFields : draft[f] = Null \/ draft[f] = Undefined]

----------------------------------------------------------------------------
(* redraw *)

setCanvasDimensions(win, ctrLat) ==
  LET latScale == Num(MulDiv(win.height - 80, P, 4))
  IN  [sheetSize |-> win,
       latScale |-> latScale,
       lonScale |-> IF IsFinite(ctrLat)
                      THEN JsMul(latScale, Num(CosLat(ctrLat.v)), T)
                      ELSE NaN]

\* project(lat, lon), in units of 1/10 pixel
project(lat, lon, ctrLat, ctrLon, dims) ==
  [x |-> JsAdd(Num((dims.sheetSize.width * P) \div 2),
               JsMul(JsSub(lon, ctrLon), dims.lonScale, U)),
   y |-> JsAdd(Num((dims.sheetSize.height * P) \div 2),
               JsMul(JsSub(ctrLat, lat), dims.latScale, U))]

\* the coefficients m and b of one line of position
Coeffs(lop) ==
  LET a == rhumbPoint(lop.aLat.v, lop.aLon.v, lop.Zn.v + radians(60), 2 * lop.a.v)
      b == rhumbPoint(lop.aLat.v, lop.aLon.v, lop.Zn.v - radians(60), 2 * lop.a.v)
      m == JsDiv(Num(b.lat - a.lat), Num(b.lon - a.lon), T)
  IN  [m |-> m, b |-> JsSub(Num(a.lat), JsMul(m, Num(a.lon), T))]

\* the body of the loop over the pairs: the intersections pair (i, j) adds
Intersect(ci, cj, ctrLat, ctrLon, dims) ==
  LET lonIntercept == JsDiv(JsSub(cj.b, ci.b), JsSub(ci.m, cj.m), T)
      latIntercept == JsAdd(JsMul(ci.m, lonIntercept, T), ci.b)
      pt == project(latIntercept, lonIntercept, ctrLat, ctrLon, dims)
  IN  IF isNaN(lonIntercept) THEN <<>>
      ELSE IF isNaN(latIntercept) THEN <<>>
      ELSE IF \/ JsLt(pt.x, Num(0))
              \/ JsLt(pt.y, Num(0))
              \/ JsGt(pt.x, Num(dims.sheetSize.width * P))
              \/ JsGt(pt.y, Num(dims.sheetSize.height * P))
        THEN <<>>
      ELSE <<[x |-> JsSub(pt.x, Num((dims.sheetSize.width * P) \div 2)),
              y |-> JsSub(pt.y, Num((dims.sheetSize.height * P) \div 2)),
              lat |-> latIntercept,
              lon |-> lonIntercept]>>

\* the loops "for i ... for j = i+1 ...", from pair (i, j) on
RECURSIVE PairLoop(_, _, _, _, _, _)
PairLoop(coeffs, i, j, ctrLat, ctrLon, dims) ==
  IF i > Len(coeffs) THEN <<>>
  ELSE IF j > Len(coeffs) THEN PairLoop(coeffs, i + 1, i + 2, ctrLat, ctrLon, dims)
  ELSE Intersect(coeffs[i], coeffs[j], ctrLat, ctrLon, dims)
       \o PairLoop(coeffs, i, j + 1, ctrLat, ctrLon, dims)

Intersections(lops, ctrLat, ctrLon, dims) ==
  PairLoop([k \in 1..Len(lops) |-> Coeffs(lops[k])], 1, 2, ctrLat, ctrLon, dims)

\* redraw(), as the state it leaves
redraw(lops, ctrLat, ctrLon, win) ==
  LET dims == setCanvasDimensions(win, ctrLat)
  IN  /\ _sheetSize' = dims.sheetSize
      /\ _latScale' = dims.latScale
      /\ _lonScale' = dims.lonScale
      /\ _intersections' = Intersections(lops, ctrLat, ctrLon, dims)

----------------------------------------------------------------------------
(* Event handlers *)

NoProbe == [fn |-> "", num |-> 0, out |-> <<>>, done |-> FALSE]

\* the sizes the sheet canvas takes
WindowSizes == {[width |-> 1200, height |-> 880], [width |-> 800, height |-> 480]}

\* the state window.onload leaves, the input tags blank and "T" selected
onload ==
  LET blank == <<>>
      oA == updateA(blank, "T")
      oZn == updateZn(blank)
      oALat == updateALat(blank)
      oALon == updateALon(blank)
      draft == [a |-> oA.val, Zn |-> oZn.val, aLat |-> oALat.val, aLon |-> oALon.val]
      ctrLat == parseIntegerLatitude(blank)
      ctrLon == parseIntegerLongitude(blank)
  IN  /\ window = [width |-> 1200, height |-> 880]
      /\ aDir = "T"
      /\ value = [ctrLat |-> formatIntegerLatitude(ctrLat.v),
                  ctrLon |-> formatIntegerLongitude(ctrLon.v),
                  a |-> oA.text, Zn |-> oZn.text,
                  aLat |-> oALat.text, aLon |-> oALon.text]
      /\ border = [f \in Fields |-> FALSE]
      /\ _draftLOP = draft
      /\ addLOPBtn = updateAddLOPButton(draft)
      /\ coords = [text |-> <<>>, snapped |-> FALSE]
      /\ _ctrLat = ctrLat
      /\ _ctrLon = ctrLon
      /\ _lops = <<>>
      /\ LET dims == setCanvasDimensions(window, ctrLat)
         IN  /\ _sheetSize = dims.sheetSize
             /\ _latScale = dims.latScale
             /\ _lonScale = dims.lonScale
             /\ _intersections = Intersections(<<>>, ctrLat, ctrLon, dims)

Init == onload /\ probe = NoProbe

\* ctrLat.onchange, the user having left text s in the field
updateCenterLatitude(s) ==
  LET newCtrLat == parseIntegerLatitude(s)
  IN  /\ IF newCtrLat = Null
           THEN /\ value' = [value EXCEPT !.ctrLat = s]
                /\ border' = [border EXCEPT !.ctrLat = TRUE]
                /\ UNCHANGED <<_ctrLat, _sheetSize, _latScale, _lonScale, _intersections>>
           ELSE /\ value' = [value EXCEPT !.ctrLat = formatIntegerLatitude(newCtrLat.v)]
                /\ _ctrLat' = newCtrLat
                /\ redraw(_lops, newCtrLat, _ctrLon, window)
                /\ UNCHANGED border
      /\ UNCHANGED <<aDir, addLOPBtn, coords, window, _ctrLon, _lops, _draftLOP, probe>>

\* updateCenterLongitude without the redraw
updateCenterLongitudeNoRedraw(s) ==
  LET newCtrLon == parseIntegerLongitude(s)
  IN  /\ IF newCtrLon = Null
           THEN /\ value' = [value EXCEPT !.ctrLon = s]
                /\ border' = [border EXCEPT !.ctrLon = TRUE]
                /\ UNCHANGED _ctrLon
           ELSE /\ value' = [value EXCEPT !.ctrLon = formatIntegerLongitude(newCtrLon.v)]
                /\ _ctrLon' = newCtrLon
                /\ UNCHANGED border
      /\ UNCHANGED <<aDir, addLOPBtn, coords, window, _ctrLat, _lops, _draftLOP, probe,
                     _sheetSize, _latScale, _lonScale, _intersections>>

\* ctrLon.onchange
updateCenterLongitude(s) ==
  LET newCtrLon == parseIntegerLongitude(s)
  IN  /\ IF newCtrLon = Null
           THEN /\ value' = [value EXCEPT !.ctrLon = s]
                /\ border' = [border EXCEPT !.ctrLon = TRUE]
                /\ UNCHANGED <<_ctrLon, _sheetSize, _latScale, _lonScale, _intersections>>
           ELSE /\ value' = [value EXCEPT !.ctrLon = formatIntegerLongitude(newCtrLon.v)]
                /\ _ctrLon' = newCtrLon
                /\ redraw(_lops, _ctrLat, newCtrLon, window)
                /\ UNCHANGED border
      /\ UNCHANGED <<aDir, addLOPBtn, coords, window, _ctrLat, _lops, _draftLOP, probe>>

\* DraftChange were addLOP to push _draftLOP itself, not a copy: the last line
\* added changes with the draft
DraftChangeAliased(f, o) ==
  /\ value' = [value EXCEPT ![f] = o.text]
  /\ border' = IF o.flag THEN [border EXCEPT ![f] = TRUE] ELSE border
  /\ _draftLOP' = [_draftLOP EXCEPT ![f] = o.val]
  /\ _lops' = IF _lops = <<>> THEN _lops ELSE [_lops EXCEPT ![Len(_lops)] = _draftLOP']
  /\ addLOPBtn' = updateAddLOPButton(_draftLOP')
  /\ UNCHANGED <<coords, window, _ctrLat, _ctrLon, _latScale, _lonScale,
                 _sheetSize, _intersections, probe>>

\* DraftChange with a failure that starts the draft anew
DraftChangeResetting(f, o) ==
  /\ value' = [value EXCEPT ![f] = o.text]
  /\ border' = IF o.flag THEN [border EXCEPT ![f] = TRUE] ELSE border
  /\ _draftLOP' = IF o.flag THEN [g \in DraftFields |-> Undefined]
                  ELSE [_draftLOP EXCEPT ![f] = o.val]
  /\ addLOPBtn' = updateAddLOPButton(_draftLOP')
  /\ UNCHANGED <<coords, window, _ctrLat, _ctrLon, _latScale, _lonScale,
                 _sheetSize, _lops, _intersections, probe>>

\* the onchange handlers of the draft fields: the update function, then
\* updateAddLOPButton
DraftChange(f, o) ==
  /\ value' = [value EXCEPT ![f] = o.text]
  /\ border' = IF o.flag THEN [border EXCEPT ![f] = TRUE] ELSE border
  /\ _draftLOP' = [_draftLOP EXCEPT ![f] = o.val]
  /\ addLOPBtn' = updateAddLOPButton(_draftLOP')
  /\ UNCHANGED <<coords, window, _ctrLat, _ctrLon, _latScale, _lonScale,
                 _sheetSize, _lops, _intersections, probe>>

\* a.onchange
ChangeA(s) ==
  /\ DraftChange("a", updateA(s, aDir))
  /\ UNCHANGED aDir

\* aDir.onchange: the other direction is selected
ChangeADir ==
  /\ aDir' = IF aDir = "T" THEN "A" ELSE "T"
  /\ DraftChange("a", updateA(value.a, aDir'))

\* Zn.onchange
ChangeZn(s) ==
  /\ DraftChange("Zn", updateZn(s))
  /\ UNCHANGED aDir

\* aLat.onchange
ChangeALat(s) ==
  /\ DraftChange("aLat", updateALat(s))
  /\ UNCHANGED aDir

\* aLon.onchange
ChangeALon(s) ==
  /\ DraftChange("aLon", updateALon(s))
  /\ UNCHANGED aDir

\* addLOP that empties the draft once it is added
addLOPClearingDraft(maxLops) ==
  /\ ~addLOPBtn.disabled
  /\ Len(_lops) < maxLops
  /\ addLOPBtn' = [disabled |-> TRUE]
  /\ _lops' = Append(_lops, _draftLOP)
  /\ _draftLOP' = [f \in DraftFields |-> Num(0)]
  /\ redraw(_lops', _ctrLat, _ctrLon, window)
  /\ UNCHANGED <<value, aDir, border, coords, window, _ctrLat, _ctrLon, probe>>

\* addLOP without the disabling of the button
addLOPLeavingEnabled(maxLops) ==
  /\ ~addLOPBtn.disabled
  /\ Len(_lops) < maxLops
  /\ UNCHANGED addLOPBtn
  /\ _lops' = Append(_lops, _draftLOP)
  /\ redraw(_lops', _ctrLat, _ctrLon, window)
  /\ UNCHANGED <<value, aDir, border, coords, window, _ctrLat, _ctrLon, _draftLOP, probe>>

\* addLOPBtn.onclick; a disabled button receives no click, and the model
\* adds at most maxLops lines
addLOP(maxLops) ==
  /\ ~addLOPBtn.disabled
  /\ Len(_lops) < maxLops
  /\ addLOPBtn' = [disabled |-> TRUE]
  /\ _lops' = Append(_lops, _draftLOP)
  /\ redraw(_lops', _ctrLat, _ctrLon, window)
  /\ UNCHANGED <<value, aDir, border, coords, window, _ctrLat, _ctrLon, _draftLOP, probe>>

\* the onkeydown handlers: clearInputError; ctrLon's clears ctrLat's border
KeyDown(f) ==
  /\ border' = [border EXCEPT ![IF f = "ctrLon" THEN "ctrLat" ELSE f] = FALSE]
  /\ UNCHANGED <<value, aDir, addLOPBtn, coords, window, _ctrLat, _ctrLon, _latScale,
                 _lonScale, _sheetSize, _lops, _intersections, _draftLOP, probe>>

\* minDistanceSqrd, in pixels squared
SnapRadiusSqrd == 100

\* the squared distance from (x, y) to an intersection
DSqrd(x, y, intersection) ==
  LET dx == JsSub(x, intersection.x)
      dy == JsSub(y, intersection.y)
  IN  JsAdd(JsMul(dx, dx, 1), JsMul(dy, dy, 1))

\* the forEach of updateCoordsDisplay over the first n intersections:
\* the index of snappedTo, 0 for null
RECURSIVE SnappedTo(_, _, _, _)
SnappedTo(intersections, n, x, y) ==
  IF n = 0 THEN 0
  ELSE IF JsGt(DSqrd(x, y, intersections[n]), Num(SnapRadiusSqrd * P * P))
    THEN SnappedTo(intersections, n - 1, x, y)
  ELSE n

\* the pointer at pixel (cx, cy) of the canvas, relative to the sheet center
FromCenter(cx, cy) ==
  [x |-> Num(cx * P - (_sheetSize.width * P) \div 2),
   y |-> Num(cy * P - (_sheetSize.height * P) \div 2)]

\* the text displayed for the point (x, y) relative to the sheet center
Readout(x, y) ==
  LET lat == JsAdd(JsDiv(JsNeg(y), _latScale, U), _ctrLat)
      lon == JsAdd(JsDiv(x, _lonScale, U), _ctrLon)
  IN  formatLatitude(lat.v) \o <<"nbsp", "nbsp">> \o formatLongitude(lon.v)

\* sheet.onmousemove, the pointer at pixel (cx, cy) of the canvas
updateCoordsDisplay(cx, cy) ==
  LET at == FromCenter(cx, cy)
      k == SnappedTo(_intersections, Len(_intersections), at.x, at.y)
      x == IF k # 0 THEN _intersections[k].x ELSE at.x
      y == IF k # 0 THEN _intersections[k].y ELSE at.y
  IN  /\ cx \in 0.._sheetSize.width
      /\ cy \in 0.._sheetSize.height
      /\ coords' = [text |-> Readout(x, y), snapped |-> k # 0]
      /\ UNCHANGED <<value, aDir, border, addLOPBtn, window, _ctrLat, _ctrLon, _latScale,
                     _lonScale, _sheetSize, _lops, _intersections, _draftLOP, probe>>

\* sheet.onmouseleave
clearCoordsDisplay ==
  /\ coords' = [coords EXCEPT !.text = <<>>]
  /\ UNCHANGED <<value, aDir, border, addLOPBtn, window, _ctrLat, _ctrLon, _latScale,
                 _lonScale, _sheetSize, _lops, _intersections, _draftLOP, probe>>

\* window.onresize, the canvas now having size win
Resize(win) ==
  /\ win # window
  /\ window' = win
  /\ redraw(_lops, _ctrLat, _ctrLon, win)
  /\ UNCHANGED <<value, aDir, border, addLOPBtn, coords, _ctrLat, _ctrLon, _lops, _draftLOP, probe>>

----------------------------------------------------------------------------
(* A formatter applied to a value outside any handler *)

Formatters == {"formatLatitude", "formatIntegerLatitude", "formatLongitude",
               "formatIntegerLongitude"}

Format(fn, deg) ==
  CASE fn = "formatLatitude" -> formatLatitude(deg)
    [] fn = "formatIntegerLatitude" -> formatIntegerLatitude(deg)
    [] fn = "formatLongitude" -> formatLongitude(deg)
    [] fn = "formatIntegerLongitude" -> formatIntegerLongitude(deg)

\* the call probe.fn(probe.num)
ApplyFormat ==
  /\ probe.fn \in Formatters
  /\ ~probe.done
  /\ probe' = [probe EXCEPT !.out = Format(probe.fn, probe.num), !.done = TRUE]
  /\ UNCHANGED state

----------------------------------------------------------------------------
(* Spec: every event of the page but the key presses, each field with few   *)
(* texts.                                                                   *)

\* the most lines of position added under Spec
MaxLops == 2

CtrLatTexts == {<<"1">>}
CtrLonTexts == {<<"1", "8", "1">>}
ATexts == {<<"2">>, <<"x">>}
ZnTexts == {<<"4", "5">>}
ALatTexts == {<<"9", "0">>}
ALonTexts == {<<"0">>}
CursorPoints == {<<600, 440>>}

Next ==
  \/ \E s \in CtrLatTexts : updateCenterLatitude(s)
  \/ \E s \in CtrLonTexts : updateCenterLongitude(s)
  \/ \E s \in ATexts : ChangeA(s)
  \/ ChangeADir
  \/ \E s \in ZnTexts : ChangeZn(s)
  \/ \E s \in ALatTexts : ChangeALat(s)
  \/ \E s \in ALonTexts : ChangeALon(s)
  \/ addLOP(MaxLops)
  \/ \E c \in CursorPoints : updateCoordsDisplay(c[1], c[2])
  \/ clearCoordsDisplay
  \/ \E win \in WindowSizes : Resize(win)

Spec == Init /\ [][Next]_vars

----------------------------------------------------------------------------
(* SpecDraft: the draft fields, each with a text that parses and one that   *)
(* does not, and the Add button.                                            *)

\* the most lines of position added under SpecDraft
MaxLopsDraft == 1

DraftATexts == {<<"2">>, <<"2", ".">>}
DraftZnTexts == {<<"9", "0">>, <<"3", "5", "9">>, <<"3", "6", "0">>, <<"3", "6", "1">>}
DraftALatTexts == {<<"0", " ", "n">>, <<"9", "0">>}
DraftALonTexts == {<<"0">>, <<"1", "8", "0", " ", "1", "W">>}

NextDraft ==
  \/ \E s \in DraftATexts : ChangeA(s)
  \/ ChangeADir
  \/ \E s \in DraftZnTexts : ChangeZn(s)
  \/ \E s \in DraftALatTexts : ChangeALat(s)
  \/ \E s \in DraftALonTexts : ChangeALon(s)
  \/ addLOP(MaxLopsDraft)

SpecDraft == Init /\ [][NextDraft]_vars

----------------------------------------------------------------------------
(* SpecFields: the six input fields, each with a text that parses and one   *)
(* that does not, on a sheet that already holds two lines of position.      *)

\* the state after the events a = "2", Zn = "45", Add, Zn = "315", Add
InitPlotted ==
  LET oA == updateA(<<"2">>, "T")
      oZn1 == updateZn(<<"4", "5">>)
      oZn2 == updateZn(<<"3", "1", "5">>)
      oALat == updateALat(<<>>)
      oALon == updateALon(<<>>)
      lop1 == [a |-> oA.val, Zn |-> oZn1.val, aLat |-> oALat.val, aLon |-> oALon.val]
      lop2 == [lop1 EXCEPT !.Zn = oZn2.val]
      ctrLat == parseIntegerLatitude(<<>>)
      ctrLon == parseIntegerLongitude(<<>>)
  IN  /\ window = [width |-> 1200, height |-> 880]
      /\ aDir = "T"
      /\ value = [ctrLat |-> formatIntegerLatitude(ctrLat.v),
                  ctrLon |-> formatIntegerLongitude(ctrLon.v),
                  a |-> oA.text, Zn |-> oZn2.text,
                  aLat |-> oALat.text, aLon |-> oALon.text]
      /\ border = [f \in Fields |-> FALSE]
      /\ _draftLOP = lop2
      /\ addLOPBtn = [disabled |-> TRUE]
      /\ coords = [text |-> <<>>, snapped |-> FALSE]
      /\ _ctrLat = ctrLat
      /\ _ctrLon = ctrLon
      /\ _lops = <<lop1, lop2>>
      /\ LET dims == setCanvasDimensions(window, ctrLat)
         IN  /\ _sheetSize = dims.sheetSize
             /\ _latScale = dims.latScale
             /\ _lonScale = dims.lonScale
             /\ _intersections = Intersections(_lops, ctrLat, ctrLon, dims)
      /\ probe = NoProbe

FieldCtrLatTexts == {<<"1", "s">>, <<"9", "0">>}
FieldCtrLonTexts == {<<"1", " ", "w">>, <<"1", "8", "1">>}
FieldATexts == {<<"3", ".", "5", "'">>, <<"x">>}
FieldZnTexts == {<<"7", " ", "deg">>, <<"3", "6", "1">>}
FieldALatTexts == {<<"1", "N">>, <<"9", "0">>}
FieldALonTexts == {<<"1", " ", "3", "0", "W">>, <<"1", "8", "0", " ", "1", "W">>}

NextFields ==
  \/ \E s \in FieldCtrLatTexts : updateCenterLatitude(s)
  \/ \E s \in FieldCtrLonTexts : updateCenterLongitude(s)
  \/ \E s \in FieldATexts : ChangeA(s)
  \/ ChangeADir
  \/ \E s \in FieldZnTexts : ChangeZn(s)
  \/ \E s \in FieldALatTexts : ChangeALat(s)
  \/ \E s \in FieldALonTexts : ChangeALon(s)

SpecFields == InitPlotted /\ [][NextFields]_vars

----------------------------------------------------------------------------
(* SpecKeys: the six input fields and their key presses, on the same sheet *)

NextKeys ==
  \/ \E s \in FieldCtrLatTexts : updateCenterLatitude(s)
  \/ \E s \in FieldCtrLonTexts : updateCenterLongitude(s)
  \/ \E s \in FieldATexts : ChangeA(s)
  \/ \E s \in FieldZnTexts : ChangeZn(s)
  \/ \E s \in FieldALatTexts : ChangeALat(s)
  \/ \E s \in FieldALonTexts : ChangeALon(s)
  \/ \E f \in Fields : KeyDown(f)

SpecKeys == InitPlotted /\ [][NextKeys]_vars

----------------------------------------------------------------------------
(* SpecBoundary: the fields with a range, on the texts at their limits *)

Lat89 == <<"8", "9">>
Lat90 == <<"9", "0">>
Lon180 == <<"1", "8", "0">>
Lon181 == <<"1", "8", "1">>
Lon180p1 == <<"1", "8", "0", ".", "1">>
Lon180m6 == <<"1", "8", "0", " ", "0", "6">>
Zn360 == <<"3", "6", "0">>
Zn361 == <<"3", "6", "1">>

NextBoundary ==
  \/ \E s \in {Lat89, Lat90, <<"-", "8", "9">>, <<"9", "0", "S">>} : updateCenterLatitude(s)
  \/ \E s \in {Lon180, Lon181, <<"1", "8", "0", "W">>, <<"-", "1", "8", "1">>} :
       updateCenterLongitude(s)
  \/ \E s \in {Zn360, Zn361} : ChangeZn(s)
  \/ \E s \in {Lat89, Lat90} : ChangeALat(s)
  \/ \E s \in {Lon180, Lon181, Lon180p1, Lon180m6} : ChangeALon(s)

SpecBoundary == Init /\ [][NextBoundary]_vars

----------------------------------------------------------------------------
(* SpecFormat: the four formatters on values in range *)

\* the largest latitude and longitude the parsers accept, in degrees
MaxLatitude == 89
MaxLongitude == 180
\* the hundredths of an arc minute the formatters are tried on
ProbeMinutes == {0, 4, 5, 50, 3000, 5994, 5995, 5999}

Angles(maxDegrees) ==
  LET mags == {d * U + h : d \in 0..(maxDegrees - 1), h \in ProbeMinutes} \cup {maxDegrees * U}
  IN  mags \cup {-x : x \in mags}

FormatInputs(fn) ==
  CASE fn = "formatLatitude" -> Angles(MaxLatitude)
    [] fn = "formatIntegerLatitude" -> {d * U : d \in (-MaxLatitude)..MaxLatitude}
    [] fn = "formatLongitude" -> Angles(MaxLongitude)
    [] fn = "formatIntegerLongitude" -> {d * U : d \in (-MaxLongitude)..MaxLongitude}

InitFormat ==
  /\ onload
  /\ \E fn \in Formatters : \E deg \in FormatInputs(fn) :
       probe = [fn |-> fn, num |-> deg, out |-> <<>>, done |-> FALSE]

NextFormat == ApplyFormat

SpecFormat == InitFormat /\ [][NextFormat]_vars

----------------------------------------------------------------------------
(* SpecSnap: three lines of position that cross near one another, and the   *)
(* pointer near the crossings.                                              *)

\* the most lines of position added under SpecSnap
MaxLopsSnap == 3

SnapATexts == {<<"2">>}
SnapZnTexts == {<<"4", "5">>, <<"3", "1", "5">>}
SnapCursorPoints == {<<603, 433>>, <<600, 430>>, <<620, 433>>}

NextSnap ==
  \/ \E s \in SnapATexts : ChangeA(s)
  \/ \E s \in SnapZnTexts : ChangeZn(s)
  \/ addLOP(MaxLopsSnap)
  \/ \E c \in SnapCursorPoints : updateCoordsDisplay(c[1], c[2])

SpecSnap == Init /\ [][NextSnap]_vars

----------------------------------------------------------------------------
(* The Add button and the lines of position *)

\* a draft value is set: a number is stored
IsSet(v) == v.t = "number"
AllSet(draft) == \A f \in DraftFields : IsSet(draft[f])

\* a step of a draft field's onchange handler, under SpecDraft
DraftEditStep ==
  \/ \E s \in DraftATexts : ChangeA(s)
  \/ ChangeADir
  \/ \E s \in DraftZnTexts : ChangeZn(s)
  \/ \E s \in DraftALatTexts : ChangeALat(s)
  \/ \E s \in DraftALonTexts : ChangeALon(s)

\* C1: right after any change event of a draft field (distance, direction,
\* azimuth, assumed latitude, assumed longitude) the Add button is enabled
\* exactly when a, Zn, aLat and aLon are all set; and in every state an
\* enabled Add button implies that the four are set.
C1_AddEnabledIffDraftSet ==
  /\ [](~addLOPBtn.disabled => AllSet(_draftLOP))
  /\ [][DraftEditStep => (~addLOPBtn'.disabled <=> AllSet(_draftLOP'))]_vars

\* a line was added, leaving the button disabled, and a later edit of the
\* azimuth has enabled the button again
C1_Witness ==
  /\ Len(_lops) = 1
  /\ ~addLOPBtn.disabled
  /\ AllSet(_draftLOP)
  /\ _draftLOP.Zn # _lops[1].Zn

\* C2: addLOP appends exactly one line at the end of _lops, its four values
\* those of the draft, and leaves the draft's four values (and the texts of the
\* fields) as they were, so that the next line added after one field is edited
\* has the other three values again.
C2_AddAppendsDraft ==
  [][(addLOP(MaxLops) \/ _lops' # _lops) =>
       /\ Len(_lops') = Len(_lops) + 1
       /\ SubSeq(_lops', 1, Len(_lops)) = _lops
       /\ _lops'[Len(_lops')] = _draftLOP
       /\ _draftLOP' = _draftLOP
       /\ value' = value]_vars

\* two lines added with an edit of the azimuth between them: both have the
\* distance 2', and the draft still holds the values of the second
C2_Witness ==
  /\ Len(_lops) = 2
  /\ _lops[1].a = Num(2 * Res)
  /\ _lops[2] = [_lops[1] EXCEPT !.Zn = Num(radians(45))]
  /\ _lops[1].Zn = Num(0)
  /\ _draftLOP = _lops[2]

\* C3: _lops is append-only and its elements never change: whatever the event
\* (an edit of a draft field that parses or not, the direction, an edit of the
\* center, a resize, a pointer move, another Add), _lops does not get shorter
\* and every line in it keeps its place and its four values.
C3_LopsAppendOnly ==
  [][/\ Len(_lops') >= Len(_lops)
     /\ \A i \in 1..Len(_lops) : _lops'[i] = _lops[i]]_vars

\* two lines are in _lops; since the second was added the distance field took
\* a text that does not parse; the center was edited, the window resized and
\* the pointer moved
C3_Witness ==
  /\ Len(_lops) = 2
  /\ _lops[2].a = Num(2 * Res)
  /\ _draftLOP.a = Undefined
  /\ _ctrLat = Num(U)
  /\ window.width = 800
  /\ coords.text # <<>>

\* a step of a draft field's onchange handler, under Spec
DraftEdit ==
  \/ \E s \in ATexts : ChangeA(s)
  \/ ChangeADir
  \/ \E s \in ZnTexts : ChangeZn(s)
  \/ \E s \in ALatTexts : ChangeALat(s)
  \/ \E s \in ALonTexts : ChangeALon(s)

\* C4: addLOP leaves the Add button disabled, and only a change event of a draft
\* field enables it again: an edit of the center, a resize, a pointer move or
\* leave never does, so no draft is added twice without a draft edit between.
C4_AddDisabledUntilEdit ==
  [][/\ addLOP(MaxLops) => addLOPBtn'.disabled
     /\ _lops' # _lops => (~addLOPBtn.disabled /\ addLOPBtn'.disabled)
     /\ (addLOPBtn.disabled /\ ~addLOPBtn'.disabled) => DraftEdit]_vars

\* a line was added and the button is still disabled, the draft being whole,
\* after an edit of the center, a resize and a pointer move
C4_Witness ==
  /\ Len(_lops) = 1
  /\ addLOPBtn.disabled
  /\ AllSet(_draftLOP)
  /\ _ctrLat = Num(U)
  /\ window.width = 800
  /\ coords.text # <<>>

----------------------------------------------------------------------------
(* Parse failures, under SpecFields, and error flags, under SpecKeys *)

FieldTexts(f) ==
  CASE f = "ctrLat" -> FieldCtrLatTexts
    [] f = "ctrLon" -> FieldCtrLonTexts
    [] f = "a" -> FieldATexts
    [] f = "Zn" -> FieldZnTexts
    [] f = "aLat" -> FieldALatTexts
    [] f = "aLon" -> FieldALonTexts

\* the texts of field f in which its onchange handler finds no value
FailingTexts ==
  [f \in Fields |->
     CASE f = "ctrLat" -> {s \in FieldCtrLatTexts : parseIntegerLatitude(s) = Null}
       [] f = "ctrLon" -> {s \in FieldCtrLonTexts : parseIntegerLongitude(s) = Null}
       [] f = "a" -> {s \in FieldATexts : updateA(s, "T").flag}
       [] f = "Zn" -> {s \in FieldZnTexts : updateZn(s).flag}
       [] f = "aLat" -> {s \in FieldALatTexts : updateALat(s).flag}
       [] f = "aLon" -> {s \in FieldALonTexts : updateALon(s).flag}]

\* the field's change event with text s
Change(f, s) ==
  CASE f = "ctrLat" -> updateCenterLatitude(s)
    [] f = "ctrLon" -> updateCenterLongitude(s)
    [] f = "a" -> ChangeA(s)
    [] f = "Zn" -> ChangeZn(s)
    [] f = "aLat" -> ChangeALat(s)
    [] f = "aLon" -> ChangeALon(s)

\* a change event of field f (for a, of its direction too) whose text fails
\* to parse: the text stays in the field
FailStep(f) ==
  \/ \E s \in FailingTexts[f] : value'[f] = s /\ Change(f, s)
  \/ f = "a" /\ aDir' # aDir /\ value.a \in FailingTexts.a /\ ChangeADir

\* a change event of field f whose text parses
OkStep(f) ==
  \E s \in FieldTexts(f) \ FailingTexts[f] : Change(f, s)

\* a key press in field f
KeyStep(f) == value' = value /\ KeyDown(f)

\* what a failure in field f leaves alone whatever the field
FailureIsLocal(f) ==
  /\ _ctrLat' = _ctrLat
  /\ _ctrLon' = _ctrLon
  /\ _lops' = _lops
  /\ _intersections' = _intersections
  /\ \A g \in Fields \ {f} : value'[g] = value[g] /\ border'[g] = border[g]

\* C5 as stated: a parse failure in any of the six fields changes neither the
\* stored center, nor the stored draft values, nor _lops, nor _intersections,
\* nor any other field.
C5_FailureKeepsDraft ==
  [][\A f \in Fields : FailStep(f) => (FailureIsLocal(f) /\ _draftLOP' = _draftLOP)]_vars

\* C5 amended: a parse failure in any of the six fields changes neither the
\* stored center, nor _lops, nor _intersections, nor any other field, nor the
\* draft values of the other fields; the draft value of a draft field that
\* fails to parse becomes unset.
C5_FailureIsLocal ==
  [][\A f \in Fields : FailStep(f) =>
       /\ FailureIsLocal(f)
       /\ \A g \in DraftFields \ {f} : _draftLOP'[g] = _draftLOP[g]
       /\ f \in DraftFields => ~IsSet(_draftLOP'[f])]_vars

\* the azimuth and the center latitude have failed to parse: the azimuth is
\* unset, and the center set before, the other draft values, the two lines and
\* their intersection are still there
C5_Witness ==
  /\ border.Zn /\ ~IsSet(_draftLOP.Zn)
  /\ border.ctrLat /\ value.ctrLat = <<"9", "0">> /\ _ctrLat = Num(-U)
  /\ _draftLOP.a = Num(350)
  /\ _draftLOP.aLon = Num(-(U + U \div 2))
  /\ Len(_lops) = 2
  /\ Len(_intersections) = 1

\* C6: a change event of a field whose text parses leaves that field without
\* its error flag; and an event of one field (a change or a key press) never
\* changes the error flag of another field.
C6_SuccessClearsOwnFlag ==
  [][\A f \in Fields :
       /\ OkStep(f) => ~border'[f]
       /\ (FailStep(f) \/ OkStep(f) \/ KeyStep(f)) =>
            \A g \in Fields \ {f} : border'[g] = border[g]]_vars

----------------------------------------------------------------------------
(* The azimuth, under SpecDraft *)

\* C7 as stated: the azimuth of every line of _lops, and the draft's when set,
\* is in the half-open range from 0 to 2 pi.
C7_AzimuthBelowTwoPi ==
  /\ \A i \in 1..Len(_lops) : _lops[i].Zn.v >= 0 /\ _lops[i].Zn.v < TwoPi
  /\ IsSet(_draftLOP.Zn) => (_draftLOP.Zn.v >= 0 /\ _draftLOP.Zn.v < TwoPi)

\* C7 amended: the azimuth of every line of _lops, and the draft's when set,
\* is in the closed range from 0 to 2 pi (the degrees parsed are in 0..360).
C7_AzimuthUpToTwoPi ==
  /\ \A i \in 1..Len(_lops) : _lops[i].Zn.v >= 0 /\ _lops[i].Zn.v <= TwoPi
  /\ IsSet(_draftLOP.Zn) => (_draftLOP.Zn.v >= 0 /\ _draftLOP.Zn.v <= TwoPi)

\* the bearing 360 was accepted and a line added with it
C7_Witness ==
  /\ Len(_lops) = 1
  /\ _lops[1].Zn = Num(TwoPi)
  /\ value.Zn = <<"3", "6", "0", "deg">>

----------------------------------------------------------------------------
(* The limits of the ranges, under SpecBoundary *)

\* C8: latitude 89 parses and 90 fails; longitude 180 parses and 181 fails
\* in the center longitude; in the assumed longitude 180 parses and 180.1 and
\* 181 leave it unset; bearing 360 parses and 361 fails.
C8_RangeBoundaries ==
  [][/\ updateCenterLatitude(Lat89) => _ctrLat' = Num(MaxLatitude * U)
     /\ updateCenterLatitude(Lat90) => (_ctrLat' = _ctrLat /\ border'.ctrLat)
     /\ ChangeALat(Lat89) => _draftLOP'.aLat = Num(MaxLatitude * U)
     /\ ChangeALat(Lat90) => ~IsSet(_draftLOP'.aLat)
     /\ updateCenterLongitude(Lon180) => _ctrLon' = Num(MaxLongitude * U)
     /\ updateCenterLongitude(Lon181) => (_ctrLon' = _ctrLon /\ border'.ctrLon)
     /\ ChangeALon(Lon180) => _draftLOP'.aLon = Num(MaxLongitude * U)
     /\ ChangeALon(Lon180p1) => ~IsSet(_draftLOP'.aLon)
     /\ ChangeALon(Lon181) => ~IsSet(_draftLOP'.aLon)
     /\ ChangeZn(Zn360) => IsSet(_draftLOP'.Zn)
     /\ ChangeZn(Zn361) => ~IsSet(_draftLOP'.Zn)]_vars

----------------------------------------------------------------------------
(* The formatters, under SpecFormat *)

Width(fn) == IF fn \in {"formatLatitude", "formatIntegerLatitude"} THEN 2 ELSE 3
PosLetter(fn) == IF fn \in {"formatLatitude", "formatIntegerLatitude"} THEN "N" ELSE "E"
NegLetter(fn) == IF fn \in {"formatLatitude", "formatIntegerLatitude"} THEN "S" ELSE "W"

\* the text starts with the whole degrees of |num| in exactly Width digits,
\* then the degree sign
DegreesPadded ==
  LET w == Width(probe.fn)
  IN  /\ Len(probe.out) > w
      /\ \A i \in 1..w : IsDigit(probe.out[i])
      /\ NumberOf(SubSeq(probe.out, 1, w)) = Abs(probe.num) \div U
      /\ probe.out[w + 1] = "deg"

\* the text ends with a space and the letter c
EndsWithLetter(c) ==
  /\ Len(probe.out) >= 2
  /\ probe.out[Len(probe.out)] = c
  /\ probe.out[Len(probe.out) - 1] = " "

\* C9 as stated: every formatter pads the degrees with zeros to 2 digits (a
\* latitude) or 3 (a longitude) and ends the text with the letter of the
\* value's sign, zero counting as positive (N or E).
C9_LetterZeroPositive ==
  probe.done =>
    /\ DegreesPadded
    /\ EndsWithLetter(IF probe.num >= 0 THEN PosLetter(probe.fn) ELSE NegLetter(probe.fn))

\* C9 amended: every formatter pads the degrees with zeros to 2 digits (a
\* latitude) or 3 (a longitude) and ends the text with the letter of the
\* value's sign when the value is not zero, and with no letter when it is zero.
C9_LetterBySign ==
  probe.done =>
    /\ DegreesPadded
    /\ probe.num > 0 => EndsWithLetter(PosLetter(probe.fn))
    /\ probe.num < 0 => EndsWithLetter(NegLetter(probe.fn))
    /\ probe.num = 0 => probe.out[Len(probe.out)] \in {"deg", "rq"}

\* formatLongitude(0) is "000° 00.0’", without a letter
C9_Witness ==
  /\ probe.done
  /\ probe.fn = "formatLongitude"
  /\ probe.num = 0
  /\ probe.out = <<"0", "0", "0", "deg", " ", "0", "0", ".", "0", "rq">>

----------------------------------------------------------------------------
(* The coordinate display, under SpecSnap *)

\* the intersections within the snap radius of the point at
Near(at) ==
  {i \in 1..Len(_intersections) :
     ~JsGt(DSqrd(at.x, at.y, _intersections[i]), Num(SnapRadiusSqrd * P * P))}

\* those of them nearest to at
Nearest(at) ==
  {i \in Near(at) :
     \A j \in Near(at) : ~JsGt(DSqrd(at.x, at.y, _intersections[i]),
                               DSqrd(at.x, at.y, _intersections[j]))}

\* C10: a pointer move displays the position of the nearest of the
\* intersections within 10 pixels of the pointer, and the position of the
\* pointer itself when there is none.
C10_SnapsToNearest ==
  [][\A c \in SnapCursorPoints : updateCoordsDisplay(c[1], c[2]) =>
       LET at == FromCenter(c[1], c[2])
       IN  IF Near(at) = {} THEN coords'.text = Readout(at.x, at.y)
           ELSE \E i \in Nearest(at) :
                  coords'.text = Readout(_intersections[i].x, _intersections[i].y)]_vars

\* InitPlotted is a state the page reaches: SpecSnap, whose events are those
\* InitPlotted names, violates this
PlottedUnreached == ~InitPlotted

----------------------------------------------------------------------------
(* SpecSheet: three lines of position that cross near (0, 0), and a sheet    *)
(* whose center and size change so that the crossings come into and go out   *)
(* of view.                                                                  *)

\* the most lines of position added under SpecSheet
MaxLopsSheet == 3

SheetATexts == {<<"2">>}
SheetZnTexts == {<<"4", "5">>, <<"3", "1", "5">>}
SheetCtrLatTexts == {<<"3">>, <<"9", "0">>}
SheetCtrLonTexts == {<<"1">>, <<"1", "8", "1">>}

NextSheet ==
  \/ \E s \in SheetATexts : ChangeA(s)
  \/ \E s \in SheetZnTexts : ChangeZn(s)
  \/ addLOP(MaxLopsSheet)
  \/ \E s \in SheetCtrLatTexts : updateCenterLatitude(s)
  \/ \E s \in SheetCtrLonTexts : updateCenterLongitude(s)
  \/ \E win \in WindowSizes : Resize(win)

SpecSheet == Init /\ [][NextSheet]_vars

----------------------------------------------------------------------------
(* The intersections kept, under SpecSheet *)

\* the pairs (i, j), i < j, of lines whose crossing the sheet now shows
Retained ==
  LET dims == setCanvasDimensions(window, _ctrLat)
  IN  {p \in (1..Len(_lops)) \X (1..Len(_lops)) :
         /\ p[1] < p[2]
         /\ Intersect(Coeffs(_lops[p[1]]), Coeffs(_lops[p[2]]),
                      _ctrLat, _ctrLon, dims) # <<>>}

\* the place of pair p among the retained pairs, by i and then by j
Rank(p) ==
  1 + Cardinality({q \in Retained : q[1] < p[1] \/ (q[1] = p[1] /\ q[2] < p[2])})

\* C11: in every state _intersections is what the pairs of the current _lops
\* give with the current center and the current sheet size: one entry for each
\* pair (i, j), i < j, whose crossing is on the sheet, in the order of i and
\* then j, and no other entry; so it has at most n(n-1)/2 entries for n lines,
\* and every entry lies within the sheet.
C11_IntersectionsFresh ==
  LET dims == setCanvasDimensions(window, _ctrLat)
      n == Len(_lops)
  IN  /\ Len(_intersections) = Cardinality(Retained)
      /\ \A p \in Retained :
           <<_intersections[Rank(p)]>> =
             Intersect(Coeffs(_lops[p[1]]), Coeffs(_lops[p[2]]), _ctrLat, _ctrLon, dims)
      /\ 2 * Len(_intersections) <= n * (n - 1)
      /\ \A k \in 1..Len(_intersections) :
           /\ 2 * Abs(_intersections[k].x.v) <= _sheetSize.width * P
           /\ 2 * Abs(_intersections[k].y.v) <= _sheetSize.height * P

\* three lines and their three crossings, on a sheet resized and moved east
\* after a center longitude that failed to parse
C11_Witness ==
  /\ Len(_lops) = 3
  /\ Len(_intersections) = 3
  /\ window.width = 800
  /\ _ctrLon = Num(U)
  /\ border.ctrLon

\* three lines whose crossings the sheet, moved north, no longer shows
C11_OutOfView ==
  /\ Len(_lops) = 3
  /\ _ctrLat = Num(3 * U)
  /\ _intersections = <<>>

----------------------------------------------------------------------------
(* SpecParallel: lines of position of one azimuth from two assumed          *)
(* positions.                                                               *)

\* the most lines of position added under SpecParallel
MaxLopsParallel == 2

ParallelATexts == {<<"2">>}
ParallelZnTexts == {<<"4", "5">>}
ParallelALatTexts == {<<"6", "0">>}
ParallelALonTexts == {<<"1", "2", "0", "W">>}

NextParallel ==
  \/ \E s \in ParallelATexts : ChangeA(s)
  \/ \E s \in ParallelZnTexts : ChangeZn(s)
  \/ \E s \in ParallelALatTexts : ChangeALat(s)
  \/ \E s \in ParallelALonTexts : ChangeALon(s)
  \/ addLOP(MaxLopsParallel)

SpecParallel == Init /\ [][NextParallel]_vars

\* C12: two lines of _lops with the same azimuth give no intersection,
\* whatever their distances and assumed positions, different assumed
\* latitudes included.
C12_SameAzimuthNoIntersection ==
  /\ Len(_intersections) = Cardinality(Retained)
  /\ \A p \in Retained : _lops[p[1]].Zn # _lops[p[2]].Zn

----------------------------------------------------------------------------
(* SpecPairs: pairs of lines of position from (0, 0), of the azimuths 0, 47  *)
(* and 313 and the distances 0, 2 toward and 2 away.                         *)

\* the most lines of position added under SpecPairs
MaxLopsPairs == 2

PairATexts == {<<"2">>}
PairZnTexts == {<<"4", "7">>, <<"3", "1", "3">>}

NextPairs ==
  \/ \E s \in PairATexts : ChangeA(s)
  \/ ChangeADir
  \/ \E s \in PairZnTexts : ChangeZn(s)
  \/ addLOP(MaxLopsPairs)

SpecPairs == Init /\ [][NextPairs]_vars

\* the pairs (i, j), i < j, of lines
Pairs == {p \in (1..Len(_lops)) \X (1..Len(_lops)) : p[1] < p[2]}

\* the differences and the intercepts redraw computes for a pair
DeltaB(p) == JsSub(Coeffs(_lops[p[2]]).b, Coeffs(_lops[p[1]]).b)
DeltaM(p) == JsSub(Coeffs(_lops[p[1]]).m, Coeffs(_lops[p[2]]).m)
LonIntercept(p) == JsDiv(DeltaB(p), DeltaM(p), T)
LatIntercept(p) ==
  JsAdd(JsMul(Coeffs(_lops[p[1]]).m, LonIntercept(p), T), Coeffs(_lops[p[1]]).b)

\* C13 as stated: a pair is discarded whenever b_j - b_i = 0 or m_i - m_j = 0,
\* or lonIntercept or latIntercept is not a finite number.
C13_DiscardOnZeroDifference ==
  /\ Len(_intersections) = Cardinality(Retained)
  /\ \A p \in Pairs :
       (\/ DeltaB(p) = Num(0)
        \/ DeltaM(p) = Num(0)
        \/ ~IsFinite(LonIntercept(p))
        \/ ~IsFinite(LatIntercept(p))) => p \notin Retained

\* C13 amended: a pair is discarded whenever m_i - m_j = 0, or lonIntercept or
\* latIntercept is not a finite number; b_j - b_i = 0 alone discards nothing.
C13_DiscardOnEqualSlope ==
  /\ Len(_intersections) = Cardinality(Retained)
  /\ \A p \in Pairs :
       (\/ DeltaM(p) = Num(0)
        \/ ~IsFinite(LonIntercept(p))
        \/ ~IsFinite(LatIntercept(p))) => p \notin Retained

\* two lines of equal finite slope and different b: lonIntercept is infinite
\* and no intersection is kept
C13_Witness ==
  /\ Len(_lops) = 2
  /\ IsFinite(Coeffs(_lops[1]).m)
  /\ DeltaM(<<1, 2>>) = Num(0)
  /\ DeltaB(<<1, 2>>) # Num(0)
  /\ ~IsFinite(LonIntercept(<<1, 2>>))
  /\ _intersections = <<>>

----------------------------------------------------------------------------
(* SpecToggle: the distance, its direction and the azimuth *)

ToggleATexts ==
  {<<"2">>, <<"2", ".", "2", "6">>, <<"0", ".", "0", "4">>, <<"1", "0", "0", "0">>, <<"x">>}
ToggleZnTexts == {<<"4", "5">>, <<"3", "6", "1">>}

NextToggle ==
  \/ \E s \in ToggleATexts : ChangeA(s)
  \/ ChangeADir
  \/ \E s \in ToggleZnTexts : ChangeZn(s)

SpecToggle == Init /\ [][NextToggle]_vars

\* C14: a change of the direction alone, the draft distance being set, leaves
\* the draft distance set, of the same magnitude and of the opposite sign (so
\* that two changes of the direction restore it); and in every state a set
\* draft distance is not negative when the direction is Toward and not
\* positive when it is Away.
C14_ToggleFlipsSign ==
  /\ [](IsSet(_draftLOP.a) =>
          IF aDir = "T" THEN _draftLOP.a.v >= 0 ELSE _draftLOP.a.v <= 0)
  /\ [][(ChangeADir /\ IsSet(_draftLOP.a)) =>
          _draftLOP'.a = Num(-_draftLOP.a.v)]_vars

====
